---- MODULE Spec2Model ----
(***************************************************************************)
(* Model of src/windows/capture.rs (xcap): the two capture entry points    *)
(* capture_monitor and capture_window and the decode stage to_rgba_image.  *)
(*                                                                         *)
(* One capture call runs at a time (the pipeline is synchronous).  Every   *)
(* platform call of the source is one step; the platform's answer to a     *)
(* call (a valid or a null handle, success or failure) is chosen           *)
(* non-deterministically.  The scoped wrappers BoxHDC / BoxHBITMAP live in *)
(* boxed.rs, which is not part of the source tree at hand: their           *)
(* construction and drop are modelled from the design text (section 4.1).  *)
(***************************************************************************)
EXTENDS Integers, Sequences, FiniteSets, TLC

(***************************************************************************)
(* Bounds of the model.                                                    *)
(***************************************************************************)
MaxCoord == 2       \* window rectangle coordinates range over 0..MaxCoord
MaxDim == 2         \* small monitor widths/heights range over 0..MaxDim
MaxScaleNum == 3    \* scale factors are n/1 and n/2 with n in 1..MaxScaleNum
MaxPixels == 2      \* decode specification: buffers of 0..MaxPixels pixels

(***************************************************************************)
(* Program constants.                                                      *)
(***************************************************************************)
BytesPerPixel == 4          \* width * height * 4, chunks_exact_mut(4)
LegacyMajorVersion == 8     \* get_os_major_version() < 8
Opaque == 255               \* src[3] = 255

(***************************************************************************)
(* Input sets.                                                             *)
(***************************************************************************)
Coords == 0..MaxCoord
\* Monitor extents: small ones, a negative one, and ones whose product
\* times 4 leaves the i32 range (2^14, 2^15, 2^16).
BigDims == {-1, 16384, 32768, 65536}
Dims == (0..MaxDim) \cup BigDims
Offsets == {0, MaxCoord}
\* A scale factor n/d is the pair <<n, d>>; d is a power of two and the
\* extents are small, so the f32 product of the source is exact.
ScaleFactors == {<<n, d>> : n \in 1..MaxScaleNum, d \in {1}} \cup
                {<<n, d>> \in (1..MaxScaleNum) \X {2} : n % 2 = 1}
\* Primary display sizes <<SM_CXSCREEN, SM_CYSCREEN>>.
ScreenSizes == {<<4, 3>>, <<1, 1>>}
\* Rectangles get_window_rect can return: extents are never negative.
Rects == {r \in [left : Coords, top : Coords, right : Coords, bottom : Coords] :
            r.left <= r.right /\ r.top <= r.bottom}
NoRect == [left |-> 0, top |-> 0, right |-> 0, bottom |-> 0]
\* Decode specification: channel bytes and alpha bytes of a device pixel.
ColourBytes == {0, 30}
AlphaBytes == {0, 128, 255}
OsMajorVersions == {6, 7, 8, 10}

(***************************************************************************)
(* 32-bit arithmetic.  i32 values are integers in -2^31 .. 2^31-1.  The    *)
(* wrapped product is computed on 8-bit limbs so that no intermediate      *)
(* value leaves that range.                                                *)
(***************************************************************************)
I32Max == 2147483647
Abs(a) == IF a < 0 THEN -a ELSE a

Limb(a, k) == CASE k = 0 -> a % 256
                [] k = 1 -> (a \div 256) % 256
                [] k = 2 -> (a \div 65536) % 256
                [] k = 3 -> (a \div 16777216) % 256

\* a * b modulo 2^32, read back as an i32 (what `a * b` yields when
\* overflow checks are off).
WrappingMul(a, b) ==
    LET c0 == Limb(a, 0) * Limb(b, 0)
        c1 == Limb(a, 0) * Limb(b, 1) + Limb(a, 1) * Limb(b, 0) + (c0 \div 256)
        c2 == Limb(a, 0) * Limb(b, 2) + Limb(a, 1) * Limb(b, 1)
              + Limb(a, 2) * Limb(b, 0) + (c1 \div 256)
        c3 == Limb(a, 0) * Limb(b, 3) + Limb(a, 1) * Limb(b, 2)
              + Limb(a, 2) * Limb(b, 1) + Limb(a, 3) * Limb(b, 0) + (c2 \div 256)
        r3 == c3 % 256
    IN  (IF r3 >= 128 THEN r3 - 256 ELSE r3) * 16777216
        + (c2 % 256) * 65536 + (c1 % 256) * 256 + (c0 % 256)

\* Whether the mathematical product a * b is an i32 (no overflow).
MulFits(a, b) ==
    \/ a = 0
    \/ b = 0
    \/ /\ (a < 0) = (b < 0)
       /\ Abs(a) <= I32Max \div Abs(b)
    \/ /\ (a < 0) # (b < 0)
       /\ Abs(a) - 1 <= (I32Max - (Abs(b) - 1)) \div Abs(b)

\* let buffer_size = width * height * 4;
BufferSizeOverflows(w, h) ==
    IF MulFits(w, h) THEN ~MulFits(WrappingMul(w, h), BytesPerPixel) ELSE TRUE

BufferSize(w, h) == WrappingMul(WrappingMul(w, h), BytesPerPixel)

\* RgbaImage::from_raw(width as u32, height as u32, buffer) accepts the
\* buffer iff 4 * (width as u32) * (height as u32), computed without
\* wrapping, is at most buffer.len().  A negative i32 read as u32 is at
\* least 2^31, more than any buffer length of the model.
FromRawAccepts(w, h, len) ==
    \/ w = 0
    \/ h = 0
    \/ /\ w > 0
       /\ h > 0
       /\ w <= (len \div BytesPerPixel) \div h

(***************************************************************************)
(* State.                                                                  *)
(***************************************************************************)
VARIABLES
    pc,               \* position of the running call
    fn,               \* "none", "capture_monitor" or "capture_window"
    x, y,             \* capture_monitor arguments
    width, height,    \* arguments (monitor) or locals (window)
    scale_factor,     \* capture_window argument <<n, d>>
    screen,           \* <<SM_CXSCREEN, SM_CYSCREEN>>
    rect,             \* result of get_window_rect
    box,              \* the four wrappers: unset / borrowed / owned / null / dropped
    created,          \* wrappers whose platform handle was created (non-null)
    live,             \* created handles not yet released
    released,         \* number of releases of each wrapper's handle
    selected,         \* object selected into the off-screen DC
    previous_object,  \* capture_window local
    is_success,       \* capture_window local
    buffer_size,      \* to_rgba_image local
    buffer_len,       \* buffer.len()
    result,           \* what the call returned
    trace,            \* platform calls of the running call, in order
    buffer,           \* decode specification: the bytes of buffer
    raw,              \* decode specification: buffer as GetDIBits left it
    idx,              \* decode specification: next chunk of the loop
    os_major_version  \* get_os_major_version()

vars == <<pc, fn, x, y, width, height, scale_factor, screen, rect, box,
          created, live, released, selected, previous_object, is_success,
          buffer_size, buffer_len, result, trace, buffer, raw, idx,
          os_major_version>>

args == <<fn, x, y, scale_factor, screen>>
decode_vars == <<buffer, raw, idx, os_major_version>>

BoxNames == {"box_hdc_desktop_window", "box_hdc_window", "box_hdc_mem", "box_h_bitmap"}

NoResult == [kind |-> "none", error |-> "", image |-> <<>>]
Ok(w, h, len) == [kind |-> "ok", error |-> "", image |-> <<w, h, len>>]
Err(msg) == [kind |-> "err", error |-> msg, image |-> <<>>]
Panic(msg) == [kind |-> "panic", error |-> msg, image |-> <<>>]
Abort(msg) == [kind |-> "abort", error |-> msg, image |-> <<>>]

Op(name, arg, ok) == [op |-> name, arg |-> arg, ok |-> ok]

Init ==
    /\ pc = "idle"
    /\ fn = "none"
    /\ x = 0 /\ y = 0 /\ width = 0 /\ height = 0
    /\ scale_factor = <<1, 1>>
    /\ screen = <<1, 1>>
    /\ rect = NoRect
    /\ box = [n \in BoxNames |-> "unset"]
    /\ created = {}
    /\ live = {}
    /\ released = [n \in BoxNames |-> 0]
    /\ selected = "none"
    /\ previous_object = "unset"
    /\ is_success = FALSE
    /\ buffer_size = 0
    /\ buffer_len = 0
    /\ result = NoResult
    /\ trace = <<>>
    /\ buffer = <<>>
    /\ raw = <<>>
    /\ idx = 0
    /\ os_major_version = 10

(***************************************************************************)
(* Scoped wrappers (boxed.rs, modelled from the design text).              *)
(***************************************************************************)
\* BoxHDC::from(hwnd): a borrowed wrapper of a pre-existing surface.
BoxHDC_from(name) ==
    /\ box' = [box EXCEPT ![name] = "borrowed"]
    /\ trace' = Append(trace, Op("BoxHDC::from", name, TRUE))
    /\ UNCHANGED <<created, live>>

\* BoxHDC::new(handle, None) / BoxHBITMAP::new(handle): an owned wrapper of
\* a handle the platform has just returned, valid or null.
Box_new(name, api, valid) ==
    /\ box' = [box EXCEPT ![name] = IF valid THEN "owned" ELSE "null"]
    /\ created' = IF valid THEN created \cup {name} ELSE created
    /\ live' = IF valid THEN live \cup {name} ELSE live
    /\ trace' = Append(trace, Op(api, name, valid))

\* Drop of one wrapper: an owned wrapper releases its handle, a borrowed
\* one and one around a null handle release nothing.
DropOp(name, sel) ==
    IF box[name] = "owned"
    THEN <<Op(IF name = "box_h_bitmap" THEN "DeleteObject" ELSE "DeleteDC", sel, TRUE)>>
    ELSE <<>>

RECURSIVE DropOps(_, _)
DropOps(order, sel) ==
    IF order = <<>> THEN <<>>
    ELSE DropOp(Head(order), sel) \o DropOps(Tail(order), sel)

InOrder(name, order) == \E i \in DOMAIN order : order[i] = name
TimesIn(name, order) == Cardinality({i \in DOMAIN order : order[i] = name})

\* The wrappers of `order` go out of scope, in that order, after `ops`.
DropScope(ops, order) ==
    /\ trace' = trace \o ops \o DropOps(order, selected)
    /\ box' = [n \in BoxNames |->
                 IF InOrder(n, order) /\ box[n] # "unset" THEN "dropped" ELSE box[n]]
    /\ live' = {n \in live : ~(InOrder(n, order) /\ box[n] = "owned")}
    /\ released' = [n \in BoxNames |->
                      released[n] + (IF box[n] = "owned" THEN TimesIn(n, order) ELSE 0)]

\* Variant: the early return releases nothing but the desktop wrapper.
MonitorLocals_leak == <<"box_hdc_desktop_window">>

\* Locals of the callers, in declaration order reversed (Rust's drop order).
MonitorLocals == <<"box_h_bitmap", "box_hdc_mem", "box_hdc_desktop_window">>
WindowEarlyLocals == <<"box_hdc_window", "box_hdc_desktop_window">>
\* to_rgba_image owns box_hdc_mem and box_h_bitmap (passed by value); its
\* parameters are dropped last parameter first, then the caller's locals.
DecodeParams == <<"box_h_bitmap", "box_hdc_mem">>
CallerRest == IF fn = "capture_window"
              THEN <<"box_hdc_window", "box_hdc_desktop_window">>
              ELSE <<"box_hdc_desktop_window">>
DecodeScope == DecodeParams \o CallerRest

(***************************************************************************)
(* Platform calls shared by the two entry points.                          *)
(***************************************************************************)
\* SelectObject(*box_hdc_mem, *box_h_bitmap): selects the bitmap and returns
\* the object selected before, or fails (null) on a null handle.
SelectBitmap ==
    IF box["box_hdc_mem"] = "owned" /\ box["box_h_bitmap"] = "owned"
    THEN [sel |-> "bitmap", prev |-> selected, ok |-> TRUE]
    ELSE [sel |-> selected, prev |-> "null", ok |-> FALSE]

\* Outcomes BitBlt can report: it cannot succeed on a null destination.
BitBltOutcomes == IF box["box_hdc_mem"] = "owned" THEN {TRUE, FALSE} ELSE {FALSE}

\* Outcomes GetDIBits can report (non-zero = TRUE).
GetDIBitsOutcomes ==
    IF box["box_hdc_mem"] = "owned" /\ box["box_h_bitmap"] = "owned"
    THEN {TRUE, FALSE} ELSE {FALSE}

(***************************************************************************)
(* capture_monitor, lines 77-112.                                          *)
(***************************************************************************)
capture_monitor ==
    /\ pc = "idle"
    /\ \E ax \in Offsets, ay \in Offsets, w \in Dims, h \in Dims :
          /\ x' = ax /\ y' = ay /\ width' = w /\ height' = h
    /\ fn' = "capture_monitor"
    /\ trace' = <<Op("SetProcessDPIAware", "", TRUE)>>
    /\ pc' = "m_desktop"
    /\ UNCHANGED <<scale_factor, screen, rect, box, created, live, released,
                   selected, previous_object, is_success, buffer_size,
                   buffer_len, result, decode_vars>>

monitor_desktop_dc ==
    /\ pc = "m_desktop"
    /\ BoxHDC_from("box_hdc_desktop_window")
    /\ pc' = "m_create_dc"
    /\ UNCHANGED <<args, width, height, rect, released, selected,
                   previous_object, is_success, buffer_size, buffer_len,
                   result, decode_vars>>

monitor_create_dc ==
    /\ pc = "m_create_dc"
    /\ \E valid \in BOOLEAN :
          /\ Box_new("box_hdc_mem", "CreateCompatibleDC", valid)
          /\ selected' = IF valid THEN "default" ELSE "none"
    /\ pc' = "m_create_bitmap"
    /\ UNCHANGED <<args, width, height, rect, released, previous_object,
                   is_success, buffer_size, buffer_len, result, decode_vars>>

monitor_create_bitmap ==
    /\ pc = "m_create_bitmap"
    /\ \E valid \in BOOLEAN :
          Box_new("box_h_bitmap", "CreateCompatibleBitmap", valid)
    /\ pc' = "m_select"
    /\ UNCHANGED <<args, width, height, rect, released, selected,
                   previous_object, is_success, buffer_size, buffer_len,
                   result, decode_vars>>

\* line 93: the return value (the object selected before) is discarded.
monitor_select ==
    /\ pc = "m_select"
    /\ selected' = SelectBitmap.sel
    /\ trace' = Append(trace, Op("SelectObject", "box_h_bitmap", SelectBitmap.ok))
    /\ pc' = "m_bitblt"
    /\ UNCHANGED <<args, width, height, rect, box, created, live, released,
                   previous_object, is_success, buffer_size, buffer_len,
                   result, decode_vars>>

\* lines 98-108: BitBlt(...)?  A failure returns at once; the locals go
\* out of scope.
monitor_bitblt ==
    /\ pc = "m_bitblt"
    /\ \E ok \in BitBltOutcomes :
          IF ok
          THEN /\ trace' = Append(trace, Op("BitBlt", "", TRUE))
               /\ pc' = "d_alloc"
               /\ UNCHANGED <<box, live, released, result>>
          ELSE /\ DropScope(<<Op("BitBlt", "", FALSE)>>, MonitorLocals)
               /\ result' = Err("BitBlt")
               /\ pc' = "done"
    /\ UNCHANGED <<args, width, height, rect, created, selected,
                   previous_object, is_success, buffer_size, buffer_len,
                   decode_vars>>

(***************************************************************************)
(* to_rgba_image, lines 24-74.                                             *)
(***************************************************************************)
\* lines 30-45: buffer_size and the allocation of buffer.  An overflowing
\* product panics when the build checks overflow and wraps when it does
\* not; a negative size cast to usize exceeds the capacity limit of Vec.
to_rgba_image_alloc ==
    /\ pc = "d_alloc"
    /\ \/ /\ BufferSizeOverflows(width, height)
          /\ DropScope(<<>>, DecodeScope)
          /\ result' = Panic("attempt to multiply with overflow")
          /\ pc' = "done"
          /\ UNCHANGED <<buffer_size, buffer_len>>
       \/ /\ BufferSize(width, height) < 0
          /\ buffer_size' = BufferSize(width, height)
          /\ DropScope(<<>>, DecodeScope)
          /\ result' = Panic("capacity overflow")
          /\ pc' = "done"
          /\ UNCHANGED buffer_len
       \/ /\ BufferSize(width, height) >= 0
          /\ buffer_size' = BufferSize(width, height)
          /\ buffer_len' = BufferSize(width, height)
          /\ pc' = "d_getdibits"
          /\ UNCHANGED <<box, live, released, result, trace>>
    /\ UNCHANGED <<args, width, height, rect, created, selected,
                   previous_object, is_success, decode_vars>>

\* lines 47-62: GetDIBits; a zero return is the error "Get RGBA data
\* failed".  When the call succeeds on a buffer shorter than the
\* height scan lines it writes, memory past the buffer is overwritten:
\* the call may go on or the process may die.
to_rgba_image_getdibits ==
    /\ pc = "d_getdibits"
    /\ \E ok \in GetDIBitsOutcomes :
          IF ok
          THEN \/ /\ trace' = Append(trace, Op("GetDIBits", "", TRUE))
                  /\ pc' = "d_convert"
                  /\ UNCHANGED <<box, live, released, result>>
               \/ /\ ~FromRawAccepts(width, height, buffer_len)
                  /\ trace' = Append(trace, Op("GetDIBits", "", TRUE))
                  /\ result' = Abort("write past the end of buffer")
                  /\ pc' = "done"
                  /\ UNCHANGED <<box, live, released>>
          ELSE /\ DropScope(<<Op("GetDIBits", "", FALSE)>>, DecodeScope)
               /\ result' = Err("Get RGBA data failed")
               /\ pc' = "done"
    /\ UNCHANGED <<args, width, height, rect, created, selected,
                   previous_object, is_success, buffer_size, buffer_len,
                   decode_vars>>

\* lines 64-70 in the capture specification: the loop rewrites buffer in
\* place and leaves its length alone (its effect on the bytes is the
\* subject of the decode specification below).
to_rgba_image_convert ==
    /\ pc = "d_convert"
    /\ pc' = "d_from_raw"
    /\ UNCHANGED <<args, width, height, rect, box, created, live, released,
                   selected, previous_object, is_success, buffer_size,
                   buffer_len, result, trace, decode_vars>>

\* lines 72-73, and the return through the caller.
to_rgba_image_from_raw ==
    /\ pc = "d_from_raw"
    /\ DropScope(<<Op("from_raw", "", FromRawAccepts(width, height, buffer_len))>>,
                 DecodeScope)
    /\ result' = IF FromRawAccepts(width, height, buffer_len)
                 THEN Ok(width, height, buffer_len)
                 ELSE Err("RgbaImage::from_raw failed")
    /\ pc' = "done"
    /\ UNCHANGED <<args, width, height, rect, created, selected,
                   previous_object, is_success, buffer_size, buffer_len,
                   decode_vars>>

(***************************************************************************)
(* capture_window, lines 115-170.                                          *)
(***************************************************************************)
\* (v as f32 * scale_factor) as i32: the product, truncated toward zero.
scale_to_i32(v, sf) ==
    IF v >= 0 THEN (v * sf[1]) \div sf[2] ELSE -(((-v) * sf[1]) \div sf[2])

\* lines 125-130: a zero extent is replaced by the display's extent.
zero_fallback(extent, metric) == IF extent = 0 THEN metric ELSE extent

\* Variant: the display width is substituted when either extent is zero.
window_width_joint(r, scr, sf) ==
    scale_to_i32(IF r.right - r.left = 0 \/ r.bottom - r.top = 0
                 THEN scr[1] ELSE r.right - r.left, sf)

\* lines 122, 125-127, 135.
window_width(r, scr, sf) == scale_to_i32(zero_fallback(r.right - r.left, scr[1]), sf)

\* lines 123, 128-130, 136.
window_height(r, scr, sf) == scale_to_i32(zero_fallback(r.bottom - r.top, scr[2]), sf)

capture_window ==
    /\ pc = "idle"
    /\ \E sf \in ScaleFactors, scr \in ScreenSizes :
          /\ scale_factor' = sf
          /\ screen' = scr
    /\ fn' = "capture_window"
    /\ trace' = <<Op("SetProcessDPIAware", "", TRUE)>>
    /\ pc' = "w_desktop"
    /\ UNCHANGED <<x, y, width, height, rect, box, created, live, released,
                   selected, previous_object, is_success, buffer_size,
                   buffer_len, result, decode_vars>>

\* line 119
window_desktop_dc ==
    /\ pc = "w_desktop"
    /\ BoxHDC_from("box_hdc_desktop_window")
    /\ pc' = "w_window"
    /\ UNCHANGED <<args, width, height, rect, released, selected,
                   previous_object, is_success, buffer_size, buffer_len,
                   result, decode_vars>>

\* line 120
window_window_dc ==
    /\ pc = "w_window"
    /\ BoxHDC_from("box_hdc_window")
    /\ pc' = "w_rect"
    /\ UNCHANGED <<args, width, height, rect, released, selected,
                   previous_object, is_success, buffer_size, buffer_len,
                   result, decode_vars>>

\* Variant: the error of get_window_rect is dropped and a zero rectangle used.
window_get_rect_ignored ==
    /\ pc = "w_rect"
    /\ \/ /\ \E r \in Rects : rect' = r
          /\ trace' = Append(trace, Op("get_window_rect", "", TRUE))
       \/ /\ rect' = NoRect
          /\ trace' = Append(trace, Op("get_window_rect", "", FALSE))
    /\ pc' = "w_dimensions"
    /\ UNCHANGED <<args, width, height, box, live, released, result, created,
                   selected, previous_object, is_success, buffer_size,
                   buffer_len, decode_vars>>

\* line 121: get_window_rect(hwnd)?
window_get_rect ==
    /\ pc = "w_rect"
    /\ \/ /\ \E r \in Rects : rect' = r
          /\ trace' = Append(trace, Op("get_window_rect", "", TRUE))
          /\ pc' = "w_dimensions"
          /\ UNCHANGED <<box, live, released, result>>
       \/ /\ DropScope(<<Op("get_window_rect", "", FALSE)>>, WindowEarlyLocals)
          /\ result' = Err("get_window_rect")
          /\ pc' = "done"
          /\ UNCHANGED rect
    /\ UNCHANGED <<args, width, height, created, selected, previous_object,
                   is_success, buffer_size, buffer_len, decode_vars>>

\* lines 122-136
window_dimensions ==
    /\ pc = "w_dimensions"
    /\ width' = window_width(rect, screen, scale_factor)
    /\ height' = window_height(rect, screen, scale_factor)
    /\ pc' = "w_create_dc"
    /\ UNCHANGED <<args, rect, box, created, live, released, selected,
                   previous_object, is_success, buffer_size, buffer_len,
                   result, trace, decode_vars>>

\* line 140
window_create_dc ==
    /\ pc = "w_create_dc"
    /\ \E valid \in BOOLEAN :
          /\ Box_new("box_hdc_mem", "CreateCompatibleDC", valid)
          /\ selected' = IF valid THEN "default" ELSE "none"
    /\ pc' = "w_create_bitmap"
    /\ UNCHANGED <<args, width, height, rect, released, previous_object,
                   is_success, buffer_size, buffer_len, result, decode_vars>>

\* lines 141-145
window_create_bitmap ==
    /\ pc = "w_create_bitmap"
    /\ \E valid \in BOOLEAN :
          Box_new("box_h_bitmap", "CreateCompatibleBitmap", valid)
    /\ pc' = "w_select"
    /\ UNCHANGED <<args, width, height, rect, released, selected,
                   previous_object, is_success, buffer_size, buffer_len,
                   result, decode_vars>>

\* line 147
window_select ==
    /\ pc = "w_select"
    /\ selected' = SelectBitmap.sel
    /\ previous_object' = SelectBitmap.prev
    /\ trace' = Append(trace, Op("SelectObject", "box_h_bitmap", SelectBitmap.ok))
    /\ pc' = "w_bitblt"
    /\ UNCHANGED <<args, width, height, rect, box, created, live, released,
                   is_success, buffer_size, buffer_len, result, decode_vars>>

\* lines 149-164: is_success = BitBlt(...).is_ok()
window_bitblt ==
    /\ pc = "w_bitblt"
    /\ \E ok \in BitBltOutcomes :
          /\ is_success' = ok
          /\ trace' = Append(trace, Op("BitBlt", "", ok))
    /\ pc' = "w_restore"
    /\ UNCHANGED <<args, width, height, rect, box, created, live, released,
                   selected, previous_object, buffer_size, buffer_len,
                   result, decode_vars>>

\* line 166: SelectObject(*box_hdc_mem, previous_object); line 168 then
\* calls to_rgba_image whatever is_success holds.
window_restore ==
    /\ pc = "w_restore"
    /\ LET ok == box["box_hdc_mem"] = "owned" /\ previous_object # "null"
       IN  /\ selected' = IF ok THEN previous_object ELSE selected
           /\ trace' = Append(trace, Op("SelectObject", "previous_object", ok))
    /\ pc' = "d_alloc"
    /\ UNCHANGED <<args, width, height, rect, box, created, live, released,
                   previous_object, is_success, buffer_size, buffer_len,
                   result, decode_vars>>

(***************************************************************************)
(* The conversion loop of to_rgba_image, lines 64-70, on the bytes.        *)
(***************************************************************************)
\* src.swap(i, j) on a chunk (0-based indices, as in the source).
swap(src, i, j) ==
    [k \in DOMAIN src |-> IF k = i + 1 THEN src[j + 1]
                          ELSE IF k = j + 1 THEN src[i + 1] ELSE src[k]]

\* Variant: the version test is `<=` instead of `<`.
convert_chunk_body_le(src, major) ==
    LET swapped == swap(src, 0, 2)
    IN  IF swapped[4] = 0 /\ major <= LegacyMajorVersion
        THEN [swapped EXCEPT ![4] = Opaque]
        ELSE swapped

\* lines 65-69: the body of the loop on one chunk of 4 bytes.
convert_chunk_body(src, major) ==
    LET swapped == swap(src, 0, 2)
    IN  IF swapped[4] = 0 /\ major < LegacyMajorVersion
        THEN [swapped EXCEPT ![4] = Opaque]
        ELSE swapped

\* buffer.chunks_exact_mut(4): chunk number i (from 0) of buf.
chunk(buf, i) == [k \in 1..BytesPerPixel |-> buf[BytesPerPixel * i + k]]
chunk_count(buf) == Len(buf) \div BytesPerPixel

\* buf with chunk number i replaced by c.
with_chunk(buf, i, c) ==
    [k \in DOMAIN buf |->
        IF k > BytesPerPixel * i /\ k <= BytesPerPixel * (i + 1)
        THEN c[k - BytesPerPixel * i] ELSE buf[k]]

\* One iteration of the loop.
convert_chunk ==
    /\ pc = "c_loop"
    /\ idx < chunk_count(buffer)
    /\ buffer' = with_chunk(buffer, idx,
                            convert_chunk_body(chunk(buffer, idx), os_major_version))
    /\ idx' = idx + 1
    /\ UNCHANGED <<pc, args, width, height, rect, box, created, live, released,
                   selected, previous_object, is_success, buffer_size,
                   buffer_len, result, trace, raw, os_major_version>>

\* The loop ends when the chunks are exhausted.
convert_done ==
    /\ pc = "c_loop"
    /\ idx = chunk_count(buffer)
    /\ pc' = "c_done"
    /\ UNCHANGED <<args, width, height, rect, box, created, live, released,
                   selected, previous_object, is_success, buffer_size,
                   buffer_len, result, trace, decode_vars>>

DevicePixels == {<<b, g, r, a>> : b \in ColourBytes, g \in ColourBytes,
                                  r \in ColourBytes, a \in AlphaBytes}

RECURSIVE flatten(_)
flatten(pixels) ==
    IF pixels = <<>> THEN <<>> ELSE Head(pixels) \o flatten(Tail(pixels))

DeviceBuffers ==
    UNION {{flatten(ps) : ps \in [1..n -> DevicePixels]} : n \in 0..MaxPixels}

\* The state in which the loop starts: GetDIBits has filled buffer.
InitDecode ==
    /\ pc = "c_loop"
    /\ fn = "none"
    /\ x = 0 /\ y = 0 /\ width = 0 /\ height = 0
    /\ scale_factor = <<1, 1>>
    /\ screen = <<1, 1>>
    /\ rect = NoRect
    /\ box = [n \in BoxNames |-> "unset"]
    /\ created = {}
    /\ live = {}
    /\ released = [n \in BoxNames |-> 0]
    /\ selected = "none"
    /\ previous_object = "unset"
    /\ is_success = FALSE
    /\ buffer \in DeviceBuffers
    /\ raw = buffer
    /\ buffer_size = Len(buffer)
    /\ buffer_len = Len(buffer)
    /\ result = NoResult
    /\ trace = <<>>
    /\ idx = 0
    /\ os_major_version \in OsMajorVersions

NextDecode ==
    \/ convert_chunk
    \/ convert_done

SpecDecode == InitDecode /\ [][NextDecode]_vars

Next ==
    \/ capture_monitor
    \/ monitor_desktop_dc
    \/ monitor_create_dc
    \/ monitor_create_bitmap
    \/ monitor_select
    \/ monitor_bitblt
    \/ capture_window
    \/ window_desktop_dc
    \/ window_window_dc
    \/ window_get_rect
    \/ window_dimensions
    \/ window_create_dc
    \/ window_create_bitmap
    \/ window_select
    \/ window_bitblt
    \/ window_restore
    \/ to_rgba_image_alloc
    \/ to_rgba_image_getdibits
    \/ to_rgba_image_convert
    \/ to_rgba_image_from_raw

Spec == Init /\ [][Next]_vars
(***************************************************************************)
(* Properties.                                                             *)
(***************************************************************************)
Did(name) == \E i \in DOMAIN trace : trace[i].op = name
Failed(name) == \E i \in DOMAIN trace : trace[i].op = name /\ ~trace[i].ok
Returned == pc = "done" /\ result.kind \in {"ok", "err"}
PlatformCalls == {"CreateCompatibleDC", "CreateCompatibleBitmap", "SelectObject",
                  "BitBlt", "GetDIBits"}
AllPlatformCallsSucceeded ==
    \A i \in DOMAIN trace : trace[i].op \in PlatformCalls => trace[i].ok
DecodePcs == {"d_alloc", "d_getdibits", "d_convert", "d_from_raw"}

\* len = 4 * (width as u32) * (height as u32) exactly.
ExactLen(w, h, len) ==
    \/ (w = 0 \/ h = 0) /\ len = 0
    \/ /\ w > 0
       /\ h > 0
       /\ len % 4 = 0
       /\ (len \div 4) % h = 0
       /\ (len \div 4) \div h = w

\* C1: a capture_monitor call with width > 0 and height > 0 in which all
\* platform calls succeed returns an image that declares width x height
\* and holds exactly width*height*4 bytes.
C1_MonitorImageMatchesInputs ==
    (/\ pc = "done"
     /\ fn = "capture_monitor"
     /\ width > 0
     /\ height > 0
     /\ AllPlatformCallsSucceeded)
    => /\ result.kind = "ok"
       /\ result.image[1] = width
       /\ result.image[2] = height
       /\ ExactLen(width, height, result.image[3])

\* C2: in capture_window a failed BitBlt is followed by the restoration of
\* the previously selected object and then by an error return; the decode
\* stage is never entered and no image is returned.
C2_FailedTransferReturnsError ==
    (fn = "capture_window" /\ Failed("BitBlt") /\ pc # "w_restore")
    => /\ pc = "done"
       /\ result.kind = "err"
       /\ trace[Len(trace)].op = "SelectObject"
       /\ trace[Len(trace)].arg = "previous_object"
       /\ ~Did("GetDIBits")

TruncatedProduct(v, sf) ==
    CHOOSE q \in 0..(v * sf[1]) : q * sf[2] <= v * sf[1] /\ v * sf[1] < (q + 1) * sf[2]

AxisExtent(lo, hi, metric) == IF hi - lo = 0 THEN metric ELSE hi - lo

\* C4: in capture_window, per axis and independently of the other axis, a
\* zero extent of the window rectangle is replaced by the primary display's
\* extent, a non-zero extent is kept, and the captured width and height are
\* that extent times the scale factor truncated to an integer.
C4_ZeroExtentFallbackPerAxis ==
    (fn = "capture_window" /\ Did("get_window_rect") /\ ~Failed("get_window_rect")
     /\ pc # "w_dimensions")
    => /\ width = TruncatedProduct(AxisExtent(rect.left, rect.right, screen[1]),
                                   scale_factor)
       /\ height = TruncatedProduct(AxisExtent(rect.top, rect.bottom, screen[2]),
                                    scale_factor)
       /\ result.kind = "ok" => /\ result.image[1] = width
                                /\ result.image[2] = height

\* A window of zero width and non-zero height was captured: the image is
\* as wide as the display times the scale factor, and as high as the window
\* times the scale factor.
C4_Witness ==
    /\ fn = "capture_window"
    /\ result.kind = "ok"
    /\ rect.right = rect.left
    /\ rect.bottom - rect.top = 1
    /\ screen = <<4, 3>>
    /\ scale_factor = <<3, 2>>
    /\ result.image[1] = 6
    /\ result.image[2] = 1

\* C5: the decode loop maps the device pixel [B,G,R,A] at each position to
\* [R,G,B,A'] at the same position, A' = 255 if A = 0 and the OS major
\* version is below 8, A' = A otherwise; pixels the loop has not reached
\* yet are untouched, so no pixel's result depends on another pixel.
C5_DecodePerPixel ==
    /\ Len(buffer) = Len(raw)
    /\ \A k \in 0..(chunk_count(raw) - 1) :
          LET b == raw[4 * k + 1]
              g == raw[4 * k + 2]
              r == raw[4 * k + 3]
              a == raw[4 * k + 4]
              a2 == IF a = 0 /\ os_major_version \in {6, 7} THEN 255 ELSE a
          IN  <<buffer[4 * k + 1], buffer[4 * k + 2], buffer[4 * k + 3], buffer[4 * k + 4]>>
              = IF k < idx THEN <<r, g, b, a2>> ELSE <<b, g, r, a>>

\* The loop has finished on two pixels under major version 8: the first had
\* alpha 0 and keeps it, and its blue and red bytes, which differ, have
\* changed places.
C5_Witness ==
    /\ pc = "c_done"
    /\ idx >= 2
    /\ os_major_version = 8
    /\ raw[1] # raw[3]
    /\ raw[4] = 0
    /\ buffer[4] = 0
    /\ buffer[1] = raw[3]

\* C6: once CreateCompatibleDC or CreateCompatibleBitmap has returned a
\* null handle, no SelectObject, BitBlt or GetDIBits follows in the call,
\* and the call returns no image.
C6_CreationFailureReturnsAtOnce ==
    /\ \A i \in DOMAIN trace, j \in DOMAIN trace :
          (/\ i < j
           /\ trace[i].op \in {"CreateCompatibleDC", "CreateCompatibleBitmap"}
           /\ ~trace[i].ok)
          => trace[j].op \notin {"SelectObject", "BitBlt", "GetDIBits"}
    /\ (Failed("CreateCompatibleDC") \/ Failed("CreateCompatibleBitmap"))
          => result.kind # "ok"

\* C7: in capture_monitor and capture_window the off-screen context is
\* never destroyed while the capture bitmap is still selected into it.
C7_RestoredBeforeContextReleased ==
    \A i \in DOMAIN trace : trace[i].op = "DeleteDC" => trace[i].arg # "bitmap"

\* C8 (as stated): when get_window_rect fails, the error is returned
\* without the call having acquired any device surface handle, the desktop
\* and window device contexts included.
C8_GeometryFirst ==
    Failed("get_window_rect")
    => /\ result = Err("get_window_rect")
       /\ ~Did("BoxHDC::from")
       /\ \A n \in BoxNames : box[n] = "unset"

\* C8 (amended): when get_window_rect fails, the call returns that error at
\* once; no off-screen context and no bitmap has been created and no
\* selection, transfer or pixel read attempted; the desktop and the window
\* device-context wrappers had been acquired before the lookup.
C8_GeometryFailureBeforeOffScreenSurface ==
    Failed("get_window_rect")
    => /\ pc = "done"
       /\ result = Err("get_window_rect")
       /\ created = {}
       /\ box["box_hdc_mem"] = "unset"
       /\ box["box_h_bitmap"] = "unset"
       /\ \A i \in DOMAIN trace : trace[i].op \notin PlatformCalls
       /\ \E i, j, k \in DOMAIN trace :
             /\ i < j /\ j < k
             /\ trace[i] = Op("BoxHDC::from", "box_hdc_desktop_window", TRUE)
             /\ trace[j] = Op("BoxHDC::from", "box_hdc_window", TRUE)
             /\ trace[k].op = "get_window_rect"

\* The window-rectangle lookup failed and the call has returned its error.
C8_Witness ==
    /\ fn = "capture_window"
    /\ pc = "done"
    /\ result = Err("get_window_rect")
    /\ Failed("get_window_rect")

\* C9: in capture_window the width and height passed to
\* CreateCompatibleBitmap are both strictly greater than 0.
C9_PositiveDimensions ==
    (fn = "capture_window" /\ Did("CreateCompatibleBitmap"))
    => (width > 0 /\ height > 0)

\* C10: for every width and height that reach the decode stage, the
\* product width*height*4 does not overflow 32 bits, the buffer allocated
\* has exactly width*height*4 bytes as the image constructor counts them,
\* and the failure "RgbaImage::from_raw failed" is never reached.
C10_BufferLengthExact ==
    /\ pc \in DecodePcs => ~BufferSizeOverflows(width, height)
    /\ pc \in (DecodePcs \ {"d_alloc"}) => ExactLen(width, height, buffer_len)
    /\ result.error # "RgbaImage::from_raw failed"
====
